---- MODULE Spec2Model ----
(***************************************************************************)
(* The job lifecycle engine of the substitute-job daemon (scraper-daemon): *)
(* the persisted notified-jobs store, the Telegram callback cursor, the    *)
(* booking executor, the expiry sweep, dispatch of new matches and the     *)
(* start-up recovery, as one state machine over the daemon's await points. *)
(***************************************************************************)
EXTENDS Integers, Sequences, FiniteSets, TLC

(***************************************************************************)
(* Bounds of the model.                                                    *)
(***************************************************************************)
MaxInstant == 2
MaxUpdates == 1
MaxScrape == 2
MaxFaults == 6
MaxClock == 88800000

(***************************************************************************)
(* Program constants.                                                      *)
(***************************************************************************)
NULL == -1
DAY_MS == 1000 * 60 * 60 * 24
MAX_JOB_AGE_DAYS == 7
NOTIFICATION_EXPIRY_MS == 5 * 60 * 1000
AUTO_BOOK_MIN_DAYS_AHEAD == 3
AUTO_BOOKING_ENABLED == TRUE

MAX_JOB_AGE_MS == MAX_JOB_AGE_DAYS * 24 * 60 * 60 * 1000

(***************************************************************************)
(* Scraped jobs.  A date string is its weekday prefix ("Wed, ") and the    *)
(* rest of the text; the rest parses as a date only when it names a day.   *)
(***************************************************************************)
DayNames == {"", "Wed"}
DateTexts == {"", "N/A", "TBD", "D2", "D3"}
DateStrings == [dayName : DayNames, text : DateTexts]

\* new Date(text).getTime(): the local midnight of the day, or NaN.
IsNaNDate(text) == text \notin {"D2", "D3"}
DateParse(text) == CASE text = "D2" -> 2 * DAY_MS
                     [] text = "D3" -> 3 * DAY_MS
                     [] OTHER -> 0

\* dateStr.replace(/^[A-Za-z]+,\s*/, '')
StripDayName(d) == [d EXCEPT !.dayName = ""]

\* !dateStr || dateStr === 'N/A'
IsMissingDate(d) == d.dayName = "" /\ d.text \in {"", "N/A"}

\* Math.ceil(a / b) for b > 0
CeilDiv(a, b) == -((-a) \div b)

\* Local midnight of the current day.
TodayMs(t) == (t \div DAY_MS) * DAY_MS

getJobDaysAhead(job, t) ==
    IF IsMissingDate(job.date) THEN -1
    ELSE LET dateStr == StripDayName(job.date) IN
         IF IsNaNDate(dateStr.text) THEN -1
         ELSE CeilDiv(DateParse(dateStr.text) - TodayMs(t), DAY_MS)

shouldAutoBookStrict(job, uncertain, t) ==
    IF uncertain THEN FALSE
    ELSE getJobDaysAhead(job, t) > AUTO_BOOK_MIN_DAYS_AHEAD

shouldAutoBook(job, uncertain, t) ==
    IF uncertain THEN FALSE
    ELSE getJobDaysAhead(job, t) >= AUTO_BOOK_MIN_DAYS_AHEAD

\* the postings on the page while the daemon runs
ScrapedDates == { [dayName |-> "", text |-> "N/A"], [dayName |-> "Wed", text |-> "D3"] }
Jobs == [date : ScrapedDates, school : {"lone peak high school"}, position : {"math"}]
AllJobs == [date : DateStrings, school : {"lone peak high school"}, position : {"math"}]

\* the text of a date string
DateText(d) == IF d.dayName = "" THEN d.text ELSE d.dayName \o ", " \o d.text

\* String.prototype.includes
Includes(s, p) == \E i \in 1..(Len(s) - Len(p) + 1) : SubSeq(s, i, i + Len(p) - 1) = p

UpperCase == <<"A", "B", "C", "D", "E", "F", "G", "H", "I", "J", "K", "L", "M",
               "N", "O", "P", "Q", "R", "S", "T", "U", "V", "W", "X", "Y", "Z">>
LowerCase == <<"a", "b", "c", "d", "e", "f", "g", "h", "i", "j", "k", "l", "m",
               "n", "o", "p", "q", "r", "s", "t", "u", "v", "w", "x", "y", "z">>

LowerChar(c) ==
    IF \E k \in 1..26 : UpperCase[k] = c
    THEN LowerCase[CHOOSE k \in 1..26 : UpperCase[k] = c]
    ELSE c

\* String.prototype.toLowerCase
RECURSIVE toLowerCase(_)
toLowerCase(s) ==
    IF s = "" THEN ""
    ELSE LowerChar(SubSeq(s, 1, 1)) \o toLowerCase(SubSeq(s, 2, Len(s)))

\* the text that is digested
\* the key over the job number too, when the posting carries one
hashStringWithJobNumber(job) ==
    toLowerCase(DateText(job.date) \o "-" \o job.school \o "-" \o job.position
                \o (IF "jobNumber" \in DOMAIN job THEN "-" \o job.jobNumber ELSE ""))

hashString(job) ==
    toLowerCase(DateText(job.date) \o "-" \o job.school \o "-" \o job.position)

\* hashString of the postings of the page, tabulated
RECURSIVE Tabulated(_)
Tabulated(jobs) ==
    IF jobs = {} THEN << >>
    ELSE LET j == CHOOSE x \in jobs : TRUE
         IN (j :> hashString(j)) @@ Tabulated(jobs \ {j})

hashStrings == Tabulated(AllJobs)

\* The md5 digest of hashString, in hex.  The digest is taken to be free of
\* collisions: a fingerprint is the text it digests.
createJobHash(job) == IF job \in AllJobs THEN hashStrings[job] ELSE hashString(job)

FP == { createJobHash(j) : j \in AllJobs }
NoHash == ""
NoJob == [date |-> [dayName |-> "", text |-> ""], school |-> "", position |-> ""]

\* filterJob's result for a scraped job: {match, uncertain}.
FilterResults == { [match |-> FALSE, uncertain |-> FALSE],
                   [match |-> TRUE, uncertain |-> FALSE],
                   [match |-> TRUE, uncertain |-> TRUE] }
Scraped == [job : Jobs, filterResult : FilterResults]

(***************************************************************************)
(* The classifier (filters.mjs): pattern lists, the four axes, filterJob.  *)
(***************************************************************************)
ACCEPTED_SCHOOL_LEVELS ==
    {"high school", "hs", "jr. high", "jr high", "junior high", "middle school",
     "intermediate"}

REJECTED_SCHOOL_LEVELS ==
    {"elementary", "elem", "primary", "kindergarten", "pre-k", "preschool", "pre school"}

BLACKLISTED_SCHOOLS ==
    {"westlake high school", "westlake hs", "saratoga springs",
     "vista heights middle school", "vista heights"}

NEARBY_SCHOOLS ==
    {"orem", "lindon", "pleasant grove", "vineyard", "american fork", "cedar hills",
     "highland", "alpine", "lehi", "mountain view", "timpanogos", "canyon view",
     "lone peak", "skyridge", "timberline"}

ACCEPTED_SUBJECTS ==
    {"history", "government", "geography", "econ", "sociology", "psychology",
     "social studies", "political science", "civics", "humanities",
     "english", "language arts", "ela", "literature", "writing", "composition",
     "reading", "band", "orchestra", "music",
     "math", "algebra", "geometry", "calculus", "statistics",
     "science", "biology", "chemistry", "physics", "anatomy", "physiology",
     "cte", "career and technical", "career tech",
     "art", "visual arts", "drawing", "painting", "ceramics", "drama", "theater",
     "theatre", "performing arts"}

REJECTED_SUBJECTS ==
    {"spanish", "french", "german", "chinese", "japanese", "sign language",
     "english language learner", "computer science", "coding", "programming",
     "choir", "chorus", "choral", "physical education", "gym", "drivers ed",
     "driver education", "special education", "special ed", "sped"}

ACCEPTED_DURATIONS == {"full day", "full-day", "fullday"}

REJECTED_DURATIONS ==
    {"half day", "half-day", "halfday", "half day am", "half day pm", "partial"}

\* some pattern of the list occurs in the lower-cased text
IncludesAny(lowerText, patterns) == \E p \in patterns : Includes(lowerText, p)

isSchoolLevelAccepted(schoolName) ==
    LET lowerSchool == toLowerCase(schoolName) IN
    IF IncludesAny(lowerSchool, REJECTED_SCHOOL_LEVELS) THEN FALSE
    ELSE IncludesAny(lowerSchool, ACCEPTED_SCHOOL_LEVELS)

isSchoolBlacklisted(schoolName) ==
    IncludesAny(toLowerCase(schoolName), BLACKLISTED_SCHOOLS)

isSchoolNearbyNever(schoolName) == FALSE

isSchoolNearby(schoolName) ==
    IncludesAny(toLowerCase(schoolName), NEARBY_SCHOOLS)

isSubjectAcceptedAcceptFirst(position) ==
    LET lowerPosition == toLowerCase(position) IN
    IF IncludesAny(lowerPosition, ACCEPTED_SUBJECTS) THEN "ACCEPT"
    ELSE IF IncludesAny(lowerPosition, REJECTED_SUBJECTS) THEN "REJECT"
    ELSE "UNCERTAIN"

isSubjectAccepted(position) ==
    LET lowerPosition == toLowerCase(position) IN
    IF IncludesAny(lowerPosition, REJECTED_SUBJECTS) THEN "REJECT"
    ELSE IF IncludesAny(lowerPosition, ACCEPTED_SUBJECTS) THEN "ACCEPT"
    ELSE "UNCERTAIN"

isDurationAccepted(duration) ==
    LET lowerDuration == toLowerCase(duration) IN
    IF IncludesAny(lowerDuration, REJECTED_DURATIONS) THEN FALSE
    ELSE IncludesAny(lowerDuration, ACCEPTED_DURATIONS)

\* filterJob's result without its reason text
FilterResult(match, uncertain) == [match |-> match, uncertain |-> uncertain]

\* the blacklist checked first and rejecting, as the rule once was
filterJobBlacklistRejects(job) ==
    LET subjectResult == isSubjectAccepted(job.position) IN
    IF isSchoolBlacklisted(job.school) THEN FilterResult(FALSE, FALSE)
    ELSE IF ~isSchoolLevelAccepted(job.school) THEN FilterResult(FALSE, FALSE)
    ELSE IF ~isDurationAccepted(job.duration) THEN FilterResult(FALSE, FALSE)
    ELSE IF subjectResult = "REJECT" THEN FilterResult(FALSE, FALSE)
    ELSE FilterResult(TRUE, subjectResult # "ACCEPT")

filterJob(job) ==
    LET blacklisted == isSchoolBlacklisted(job.school)
        schoolLevelOk == isSchoolLevelAccepted(job.school)
        fullDay == isDurationAccepted(job.duration)
        subjectResult == isSubjectAccepted(job.position)
        nearby == isSchoolNearby(job.school)
    IN
    IF subjectResult = "REJECT" THEN FilterResult(FALSE, FALSE)
    ELSE IF ~schoolLevelOk /\ ~blacklisted THEN FilterResult(FALSE, FALSE)
    ELSE IF blacklisted
    THEN IF fullDay /\ (subjectResult = "ACCEPT" \/ subjectResult = "UNCERTAIN")
         THEN FilterResult(TRUE, TRUE)
         ELSE FilterResult(FALSE, FALSE)
    ELSE IF fullDay
    THEN IF subjectResult = "ACCEPT"
         THEN FilterResult(TRUE, FALSE)
         ELSE FilterResult(TRUE, TRUE)
    ELSE IF nearby /\ subjectResult = "ACCEPT"
    THEN FilterResult(TRUE, TRUE)
    ELSE FilterResult(FALSE, FALSE)

Statuses == {"notified", "book_requested", "booking", "booked", "failed",
             "ignored", "expired"}

VARIABLES
    now,               \* Date.now(), ms since the daemon was first started
    pc,                \* where the daemon is
    disk,              \* data/notified-jobs.json
    mem,               \* notifiedJobs of the running cycle
    cur,               \* the entry whose booking attempt is in flight
    lastUpdateOffset,  \* the callback cursor
    tgNext,            \* Telegram: id of the next update
    tgPending,         \* Telegram: unconfirmed updates, oldest first
    seen,              \* the update ids that polls have returned so far
    polled,            \* the update ids this cycle's poll returned
    toasts,            \* the answers given this cycle: <<update id, toast>>
    edits,             \* the message edits of this cycle: <<fingerprint, status line>>
    sent,              \* the matches whose job notification was sent this cycle
    skipped,           \* the fingerprints dispatch found already notified this cycle
    threw,             \* the sends of dispatch that threw this cycle: <<fingerprint,
                       \* number of sends that had returned>>
    attempted,         \* the entries for which a booking was attempted so far:
                       \* <<fingerprint, timestamp>>
    bookEvt,           \* fingerprints whose book press was applied this cycle
    keyboards,         \* fingerprints whose Book/Ignore buttons were ever sent
    args,              \* the arguments of a call of a pure function
    returned,          \* what the call returned
    lpc,               \* main: where its loops are
    browser,           \* main: a browser is open
    browserStartTime,  \* main: when the session of the browser was ready
    consecutiveErrors, \* main: the failing cycles in a row
    shutdownRequested, \* a termination signal has arrived
    did,               \* what the last step of main did to the outside
    failStreak,        \* the failing cycles in a row in this session
    faults             \* the failures the outside has caused so far

vars == <<now, pc, disk, mem, cur, lastUpdateOffset, tgNext,
          tgPending, seen, polled, toasts, edits, sent, skipped, threw, attempted,
          bookEvt, keyboards, args, returned, lpc, browser, browserStartTime,
          consecutiveErrors, shutdownRequested, did, failStreak, faults>>

\* the variables of the calls of pure functions, and those of main's loops
pure == <<args, returned>>
scheduler == <<lpc, browser, browserStartTime, consecutiveErrors, shutdownRequested,
               did, failStreak, faults>>

EmptyStore == [h \in {} |-> NoJob]

(***************************************************************************)
(* The Lifecycle Store.  A store maps fingerprints to values: an entry     *)
(* record, or a legacy record that holds only the time of notification.    *)
(***************************************************************************)
IsLegacy(value) == DOMAIN value = {"legacy"}

MigrateLegacy(value) ==
    [status |-> "expired", timestamp |-> value.legacy, expiresAt |-> value.legacy,
     telegramMessageId |-> NULL, jobData |-> NoJob, uncertain |-> FALSE,
     autoBooked |-> FALSE]

\* the load that leaves the legacy records as they are
loadNotifiedJobsUnmigrated(file) == file

loadNotifiedJobs(file) ==
    [h \in DOMAIN file |-> IF IsLegacy(file[h]) THEN MigrateLegacy(file[h]) ELSE file[h]]

\* the purge that keeps an entry made exactly the retention time ago
cleanOldNotificationsInclusive(notifiedJobs, t) ==
    LET cutoffTime == t - MAX_JOB_AGE_MS
        timestamp(value) == IF IsLegacy(value) THEN value.legacy ELSE value.timestamp
        kept == { h \in DOMAIN notifiedJobs : timestamp(notifiedJobs[h]) >= cutoffTime }
    IN [h \in kept |-> notifiedJobs[h]]

cleanOldNotifications(notifiedJobs, t) ==
    LET cutoffTime == t - MAX_JOB_AGE_MS
        timestamp(value) == IF IsLegacy(value) THEN value.legacy ELSE value.timestamp
        kept == { h \in DOMAIN notifiedJobs : timestamp(notifiedJobs[h]) > cutoffTime }
    IN [h \in kept |-> notifiedJobs[h]]

recoverStuckBookingsNone(notifiedJobs) == notifiedJobs

recoverStuckBookings(notifiedJobs) ==
    [h \in DOMAIN notifiedJobs |->
        IF notifiedJobs[h].status = "booking"
        THEN [notifiedJobs[h] EXCEPT !.status = "failed"]
        ELSE notifiedJobs[h]]

\* entry.telegramMessageId && entry.jobData
CanEdit(entry) ==
    /\ entry.telegramMessageId # NULL /\ entry.telegramMessageId # 0
    /\ entry.jobData # NoJob

(***************************************************************************)
(* The Notification Channel.  getUpdates(offset) confirms (forgets) the    *)
(* updates below offset and returns the unconfirmed ones from offset on.   *)
(***************************************************************************)
Actions == {"book", "ignore", "other"}
CallbackData == [action : Actions, jobHash : FP] \cup {[action |-> "", jobHash |-> NoHash]}

\* callback_data of the buttons sent so far, and data without a hash
PressableData(sentKeyboards) ==
    [action : Actions, jobHash : sentKeyboards] \cup {[action |-> "", jobHash |-> NoHash]}

SelectSeqFrom(updates, offset) == SelectSeq(updates, LAMBDA u : u.update_id >= offset)

\* pollCallbackQueries: {queries, newOffset}; a failed fetch returns nothing.
pollCallbackQueries(offset, updates, ok) ==
    LET result == SelectSeqFrom(updates, offset) IN
    IF ~ok \/ result = <<>>
    THEN [queries |-> <<>>, newOffset |-> offset]
    ELSE [queries |-> result, newOffset |-> result[Len(result)].update_id + 1]

(***************************************************************************)
(* processCallbacks: the loop over the polled queries.  acc carries the    *)
(* store, the toasts answered, the message edits and the presses applied.  *)
(***************************************************************************)
Answer(acc, query, toast) ==
    [acc EXCEPT !.toasts = Append(@, <<query.update_id, toast>>)]

ApplyCallbackAnyStatus(acc, query) ==
    LET action == query.data.action
        jobHash == query.data.jobHash
        entry == acc.store[jobHash]
    IN
    IF jobHash = NoHash \/ jobHash \notin DOMAIN acc.store
    THEN Answer(acc, query, <<"Job not found or expired">>)
    ELSE IF action = "book"
    THEN [Answer(acc, query, <<"Booking...">>) EXCEPT
              !.store[jobHash].status = "book_requested",
              !.bookEvt = @ \cup {jobHash}]
    ELSE IF action = "ignore"
    THEN [Answer(acc, query, <<"Ignored">>) EXCEPT
              !.store[jobHash].status = "ignored",
              !.edits = IF CanEdit(entry) THEN Append(@, <<jobHash, "ignored">>) ELSE @]
    ELSE acc

ApplyCallback(acc, query) ==
    LET action == query.data.action
        jobHash == query.data.jobHash
        entry == acc.store[jobHash]
    IN
    IF jobHash = NoHash \/ jobHash \notin DOMAIN acc.store
    THEN Answer(acc, query, <<"Job not found or expired">>)
    ELSE IF action = "book"
    THEN IF entry.status # "notified"
         THEN Answer(acc, query, <<"Already", entry.status>>)
         ELSE [Answer(acc, query, <<"Booking...">>) EXCEPT
                  !.store[jobHash].status = "book_requested",
                  !.bookEvt = @ \cup {jobHash}]
    ELSE IF action = "ignore"
    THEN IF entry.status # "notified"
         THEN Answer(acc, query, <<"Already", entry.status>>)
         ELSE [Answer(acc, query, <<"Ignored">>) EXCEPT
                  !.store[jobHash].status = "ignored",
                  !.edits = IF CanEdit(entry) THEN Append(@, <<jobHash, "ignored">>) ELSE @]
    ELSE acc

RECURSIVE ProcessQueries(_, _)
ProcessQueries(queries, acc) ==
    IF queries = <<>> THEN acc
    ELSE ProcessQueries(Tail(queries), ApplyCallback(acc, Head(queries)))

(***************************************************************************)
(* executePendingBookings, expireOldNotifications.                         *)
(***************************************************************************)
IsPendingNever(entry) == FALSE

IsPendingOrNotified(entry) == entry.status \in {"book_requested", "notified"}

\* the entries the executor books: entry.status === 'book_requested'
IsPending(entry) == entry.status = "book_requested"

Pending(notifiedJobs) == { h \in DOMAIN notifiedJobs : IsPending(notifiedJobs[h]) }

\* bookJobOnPage's result, or the exception it threw
BookingOutcomes == {"booked", "taken", "error", "throw"}

BookingStatusRetry(outcome) == IF outcome = "booked" THEN "booked" ELSE "book_requested"

BookingStatus(outcome) == IF outcome = "booked" THEN "booked" ELSE "failed"

BookingStatusLine(outcome) ==
    CASE outcome = "booked" -> "booked"
      [] outcome = "taken" -> "taken"
      [] OTHER -> "error"

IsExpiredAnyStatus(entry, t) ==
    entry.status \in {"notified", "ignored"} /\ entry.expiresAt # NULL
        /\ entry.expiresAt # 0 /\ t > entry.expiresAt

\* entry.status === 'notified' && entry.expiresAt && now > entry.expiresAt
IsExpired(entry, t) ==
    /\ entry.status = "notified"
    /\ entry.expiresAt # NULL /\ entry.expiresAt # 0
    /\ t > entry.expiresAt

expireOldNotifications(notifiedJobs, t) ==
    [h \in DOMAIN notifiedJobs |->
        IF IsExpired(notifiedJobs[h], t)
        THEN [notifiedJobs[h] EXCEPT !.status = "expired"]
        ELSE notifiedJobs[h]]

\* the edits of the sweep, in the order of the store's keys
RECURSIVE ExpiryEdits(_, _, _)
ExpiryEdits(notifiedJobs, hashes, t) ==
    IF hashes = {} THEN <<>>
    ELSE LET h == CHOOSE x \in hashes : TRUE
             rest == ExpiryEdits(notifiedJobs, hashes \ {h}, t)
         IN IF IsExpired(notifiedJobs[h], t) /\ CanEdit(notifiedJobs[h])
            THEN <<<<h, "expired">>>> \o rest
            ELSE rest

(***************************************************************************)
(* Dispatch of the new matches of one scrape (step 4 of the cycle).        *)
(***************************************************************************)
\* what a send returns: it throws, or it gives the message id (or null)
SendOutcomes == { [ok |-> FALSE, message_id |-> NULL],
                  [ok |-> TRUE, message_id |-> 1] }

AlreadyNotifiedNever(notifiedJobs, jobHash) == FALSE

AlreadyNotifiedAlways(notifiedJobs, jobHash) == TRUE

\* notifiedJobs[jobHash] is there
AlreadyNotified(notifiedJobs, jobHash) == jobHash \in DOMAIN notifiedJobs

AutoBookEntry(job, messageId, t) ==
    [status |-> "book_requested", timestamp |-> t, expiresAt |-> NULL,
     telegramMessageId |-> messageId, jobData |-> job, uncertain |-> FALSE,
     autoBooked |-> TRUE]

ConfirmEntry(job, uncertain, messageId, t) ==
    [status |-> "notified", timestamp |-> t, expiresAt |-> t + NOTIFICATION_EXPIRY_MS,
     telegramMessageId |-> messageId, jobData |-> job, uncertain |-> uncertain,
     autoBooked |-> FALSE]

PlainEntry(job, uncertain, t) ==
    [status |-> "notified", timestamp |-> t, expiresAt |-> NULL,
     telegramMessageId |-> NULL, jobData |-> job, uncertain |-> uncertain,
     autoBooked |-> FALSE]

\* the body that writes the entry although the send threw
NotifyNewUnsent(acc, m, jobHash, out, t) ==
    IF ~out.ok
    THEN [acc EXCEPT !.store = (jobHash :> PlainEntry(m.job, m.filterResult.uncertain, t)) @@ @,
                     !.threw = @ \cup {<<jobHash, Len(acc.sent)>>}]
    ELSE IF AUTO_BOOKING_ENABLED /\ shouldAutoBook(m.job, m.filterResult.uncertain, t)
    THEN [acc EXCEPT !.store = (jobHash :> AutoBookEntry(m.job, out.message_id, t)) @@ @,
                     !.sent = Append(@, m),
                     !.autoBooked = @ + 1]
    ELSE IF AUTO_BOOKING_ENABLED
    THEN [acc EXCEPT !.store = (jobHash :>
                          ConfirmEntry(m.job, m.filterResult.uncertain, out.message_id, t)) @@ @,
                     !.sent = Append(@, m)]
    ELSE [acc EXCEPT !.store = (jobHash :> PlainEntry(m.job, m.filterResult.uncertain, t)) @@ @,
                     !.sent = Append(@, m)]

\* the body of the try block for one new match, given what its send did
NotifyNew(acc, m, jobHash, out, t) ==
    IF ~out.ok THEN [acc EXCEPT !.threw = @ \cup {<<jobHash, Len(acc.sent)>>}]
    ELSE IF AUTO_BOOKING_ENABLED /\ shouldAutoBook(m.job, m.filterResult.uncertain, t)
    THEN [acc EXCEPT !.store = (jobHash :> AutoBookEntry(m.job, out.message_id, t)) @@ @,
                     !.sent = Append(@, m),
                     !.autoBooked = @ + 1]
    ELSE IF AUTO_BOOKING_ENABLED
    THEN [acc EXCEPT !.store = (jobHash :>
                          ConfirmEntry(m.job, m.filterResult.uncertain, out.message_id, t)) @@ @,
                     !.sent = Append(@, m)]
    ELSE [acc EXCEPT !.store = (jobHash :> PlainEntry(m.job, m.filterResult.uncertain, t)) @@ @,
                     !.sent = Append(@, m)]

\* the results the loop over matchedJobs can end with, one per run of send outcomes
RECURSIVE DispatchNew(_, _, _)
DispatchNew(matchedJobs, acc, t) ==
    IF matchedJobs = <<>> THEN {acc}
    ELSE LET m == Head(matchedJobs)
             jobHash == createJobHash(m.job)
         IN IF AlreadyNotified(acc.store, jobHash)
            THEN DispatchNew(Tail(matchedJobs),
                             [acc EXCEPT !.skipped = @ \cup {jobHash}], t)
            ELSE UNION { DispatchNew(Tail(matchedJobs), NotifyNew(acc, m, jobHash, out, t), t)
                         : out \in SendOutcomes }

\* step 3: matchedJobs
Matched(jobsData) == SelectSeq(jobsData, LAMBDA s : s.filterResult.match)

ScrapeResults == UNION { [1..n -> Scraped] : n \in 0..MaxScrape }

\* the matchedJobs lists that step 3 can hand to step 4
MatchedLists == { Matched(jobsData) : jobsData \in ScrapeResults }

\* the same for a page that shows postings with any of the date strings
AnyScraped == [job : AllJobs, filterResult : FilterResults]
AnyMatchedLists ==
    { Matched(jobsData) : jobsData \in UNION { [1..n -> AnyScraped] : n \in 0..MaxScrape } }

(***************************************************************************)
(* The store file the daemon finds when it is first started: the file of   *)
(* an earlier run, left with an auto-booking in booking that was made five *)
(* minutes less than the retention time ago.                               *)
(***************************************************************************)
LeftoverJob == [date |-> [dayName |-> "Wed", text |-> "D3"],
                school |-> "lone peak high school", position |-> "math"]

LeftoverStore ==
    createJobHash(LeftoverJob) :>
        [status |-> "booking", timestamp |-> NOTIFICATION_EXPIRY_MS - MAX_JOB_AGE_MS,
         expiresAt |-> NULL, telegramMessageId |-> 1, jobData |-> LeftoverJob,
         uncertain |-> FALSE, autoBooked |-> TRUE]

\* The instants at which the daemon reads the clock: the start, the expiry
\* deadline of an entry made at the start (and the end of the retention of
\* the entry found at the start), the instant after it, the end of the
\* retention of an entry made at the start, then every five minutes.
Instant(k) ==
    CASE k = 0 -> 0
      [] k = 1 -> NOTIFICATION_EXPIRY_MS
      [] k = 2 -> NOTIFICATION_EXPIRY_MS + 1
      [] k = 3 -> MAX_JOB_AGE_MS
      [] OTHER -> MAX_JOB_AGE_MS + (k - 3) * NOTIFICATION_EXPIRY_MS

NoSends == <<>>
NoEdits == <<>>
NoToasts == <<>>

\* no pure function is being called
NoCall == args = << >> /\ returned = << >>

\* main is inside performScrapeFilterNotify, in the first session of a process
InCycle ==
    /\ lpc = "cycle"
    /\ browser = TRUE
    /\ browserStartTime = 0
    /\ consecutiveErrors = 0
    /\ shutdownRequested = FALSE
    /\ did = {}
    /\ failStreak = 0
    /\ faults = 0

Init ==
    /\ now = Instant(0)
    /\ pc = "boot"
    /\ disk = LeftoverStore
    /\ mem = EmptyStore
    /\ cur = NoHash
    /\ lastUpdateOffset = 0
    /\ tgNext = 1 /\ tgPending = <<>>
    /\ seen = {}
    /\ polled = {}
    /\ toasts = NoToasts
    /\ edits = NoEdits
    /\ sent = NoSends
    /\ skipped = {}
    /\ threw = {}
    /\ attempted = {}
    /\ bookEvt = {}
    /\ keyboards = {}
    /\ NoCall
    /\ InCycle

\* the histories that a step of the environment leaves alone
hist == <<seen, polled, toasts, edits, sent, skipped, threw, attempted, bookEvt,
          keyboards>>

\* main, up to the outer loop: recover the stuck bookings and save
Main ==
    /\ pc = "boot"
    /\ disk' = recoverStuckBookings(loadNotifiedJobs(disk))
    /\ pc' = "loop"
    /\ UNCHANGED <<now, mem, cur, lastUpdateOffset, tgNext, tgPending, hist>>
    /\ UNCHANGED <<pure, scheduler>>

\* performScrapeFilterNotify, step 1: load the store and process the callbacks
ProcessCallbacks ==
    /\ pc = "loop"
    /\ \E ok \in BOOLEAN :
          LET poll == pollCallbackQueries(lastUpdateOffset, tgPending, ok)
              ids == { poll.queries[i].update_id : i \in 1..Len(poll.queries) }
              acc == ProcessQueries(poll.queries,
                         [store |-> loadNotifiedJobs(disk), toasts |-> NoToasts,
                          edits |-> NoEdits, bookEvt |-> {}])
          IN /\ lastUpdateOffset' = poll.newOffset
             /\ tgPending' = IF ok THEN SelectSeqFrom(tgPending, lastUpdateOffset)
                             ELSE tgPending
             /\ mem' = acc.store
             /\ polled' = ids
             /\ seen' = seen \cup ids
             /\ toasts' = acc.toasts
             /\ edits' = acc.edits
             /\ bookEvt' = acc.bookEvt
    /\ sent' = NoSends
    /\ skipped' = {}
    /\ threw' = {}
    /\ pc' = "book1"
    /\ UNCHANGED <<now, disk, cur, tgNext, attempted, keyboards>>
    /\ UNCHANGED <<pure, scheduler>>

\* the executor that starts the calls for all the pending entries at once
BeginBookingAll ==
    /\ pc \in {"book1", "book2"}
    /\ Pending(mem) # {}
    /\ mem' = [h \in DOMAIN mem |->
                  IF h \in Pending(mem) THEN [mem[h] EXCEPT !.status = "booking"]
                  ELSE mem[h]]
    /\ cur' \in Pending(mem)
    /\ attempted' = attempted \cup { <<h, mem[h].timestamp>> : h \in Pending(mem) }
    /\ pc' = IF pc = "book1" THEN "call1" ELSE "call2"
    /\ UNCHANGED <<now, disk, lastUpdateOffset, tgNext, tgPending, seen,
                   polled, toasts, edits, sent, skipped, threw, bookEvt, keyboards>>
    /\ UNCHANGED <<pure, scheduler>>

\* executePendingBookings: mark the next pending entry and call bookJobOnPage
BeginBooking ==
    /\ pc \in {"book1", "book2"}
    /\ \E h \in Pending(mem) :
          /\ mem' = [mem EXCEPT ![h].status = "booking"]
          /\ cur' = h
          /\ attempted' = attempted \cup {<<h, mem[h].timestamp>>}
    /\ pc' = IF pc = "book1" THEN "call1" ELSE "call2"
    /\ UNCHANGED <<now, disk, lastUpdateOffset, tgNext, tgPending, seen,
                   polled, toasts, edits, sent, skipped, threw, bookEvt, keyboards>>
    /\ UNCHANGED <<pure, scheduler>>

FinishBookingThrowAborts ==
    /\ pc \in {"call1", "call2"}
    /\ \E outcome \in BookingOutcomes :
          /\ mem' = [mem EXCEPT ![cur].status = BookingStatus(outcome)]
          /\ edits' = IF CanEdit(mem[cur])
                      THEN Append(edits, <<cur, BookingStatusLine(outcome)>>)
                      ELSE edits
          /\ pc' = IF outcome = "throw" THEN (IF pc = "call1" THEN "scrape" ELSE "final")
                   ELSE IF pc = "call1" THEN "book1" ELSE "book2"
          /\ disk' = IF outcome = "throw" /\ pc = "call1" THEN mem' ELSE disk
    /\ cur' = NoHash
    /\ UNCHANGED <<now, lastUpdateOffset, tgNext, tgPending, seen,
                   polled, toasts, sent, skipped, threw, attempted, bookEvt, keyboards>>
    /\ UNCHANGED <<pure, scheduler>>

\* executePendingBookings: bookJobOnPage returned or threw
FinishBooking ==
    /\ pc \in {"call1", "call2"}
    /\ \E outcome \in BookingOutcomes :
          /\ mem' = [mem EXCEPT ![cur].status = BookingStatus(outcome)]
          /\ edits' = IF CanEdit(mem[cur])
                      THEN Append(edits, <<cur, BookingStatusLine(outcome)>>)
                      ELSE edits
    /\ cur' = NoHash
    /\ pc' = IF pc = "call1" THEN "book1" ELSE "book2"
    /\ UNCHANGED <<now, disk, lastUpdateOffset, tgNext, tgPending, seen,
                   polled, toasts, sent, skipped, threw, attempted, bookEvt, keyboards>>
    /\ UNCHANGED <<pure, scheduler>>

ExpireUnsaved ==
    /\ pc = "book1"
    /\ Pending(mem) = {}
    /\ mem' = expireOldNotifications(mem, now)
    /\ edits' = edits \o ExpiryEdits(mem, DOMAIN mem, now)
    /\ pc' = "scrape"
    /\ UNCHANGED <<now, disk, cur, lastUpdateOffset, tgNext, tgPending, seen,
                   polled, toasts, sent, skipped, threw, attempted, bookEvt, keyboards>>
    /\ UNCHANGED <<pure, scheduler>>

\* step 1, end: the expiry sweep and the first save
ExpireAndSave ==
    /\ pc = "book1"
    /\ Pending(mem) = {}
    /\ mem' = expireOldNotifications(mem, now)
    /\ edits' = edits \o ExpiryEdits(mem, DOMAIN mem, now)
    /\ disk' = mem'
    /\ pc' = "scrape"
    /\ UNCHANGED <<now, cur, lastUpdateOffset, tgNext, tgPending, seen,
                   polled, toasts, sent, skipped, threw, attempted, bookEvt, keyboards>>
    /\ UNCHANGED <<pure, scheduler>>

\* the cycle is over: its locals are gone
EndOfCycle ==
    /\ mem' = EmptyStore
    /\ cur' = NoHash
    /\ bookEvt' = {}
    /\ sent' = NoSends
    /\ skipped' = {}
    /\ threw' = {}
    /\ polled' = {}
    /\ toasts' = NoToasts
    /\ edits' = NoEdits

\* step 2 throws (page or screenshot error): the cycle is abandoned
ScrapeError ==
    /\ pc = "scrape"
    /\ EndOfCycle
    /\ pc' = "loop"
    /\ UNCHANGED <<now, disk, lastUpdateOffset, tgNext, tgPending, seen,
                   attempted, keyboards>>
    /\ UNCHANGED <<pure, scheduler>>

\* steps 2 to 4: scrape, filter, notify the new matches
DispatchLists(lists) ==
    /\ pc = "scrape"
    /\ \E r \in UNION { DispatchNew(matchedJobs,
                                    [store |-> mem, sent |-> sent, skipped |-> skipped,
                                     threw |-> threw,
                                     autoBooked |-> 0], now)
                        : matchedJobs \in lists } :
             /\ mem' = r.store
             /\ sent' = r.sent
             /\ skipped' = r.skipped
             /\ threw' = r.threw
             /\ keyboards' = keyboards \cup
                     { h \in DOMAIN r.store \ DOMAIN mem : r.store[h].status = "notified" }
             /\ pc' = IF r.autoBooked > 0 THEN "book2" ELSE "final"
    /\ UNCHANGED <<now, disk, cur, lastUpdateOffset, tgNext, tgPending,
                   seen, polled, toasts, edits, attempted, bookEvt>>
    /\ UNCHANGED <<pure, scheduler>>

Dispatch == DispatchLists(MatchedLists)

\* the immediate executePendingBookings has returned
AutoBookingsDone ==
    /\ pc = "book2"
    /\ Pending(mem) = {}
    /\ pc' = "final"
    /\ UNCHANGED <<now, disk, mem, cur, lastUpdateOffset, tgNext, tgPending, hist>>
    /\ UNCHANGED <<pure, scheduler>>

\* the retention purge and the final save; the cycle returns
CleanAndSave ==
    /\ pc = "final"
    /\ disk' = cleanOldNotifications(mem, now)
    /\ EndOfCycle
    /\ pc' = "loop"
    /\ UNCHANGED <<now, lastUpdateOffset, tgNext, tgPending, seen, attempted,
                   keyboards>>
    /\ UNCHANGED <<pure, scheduler>>

\* The process dies and the process manager starts it again.  A death later
\* in the cycle leaves the same files as one of these: what step 1 saved.
Crash ==
    /\ pc \in {"loop", "book1", "call1", "call2"}
    /\ pc' = "boot"
    /\ EndOfCycle
    /\ lastUpdateOffset' = 0
    /\ UNCHANGED <<now, disk, tgNext, tgPending, seen, attempted, keyboards>>
    /\ UNCHANGED <<pure, scheduler>>

\* time passes while the daemon sleeps between two cycles
Tick ==
    /\ pc = "loop"
    /\ \E k \in 1..MaxInstant : Instant(k) > now /\ now' = Instant(k)
    /\ UNCHANGED <<pc, disk, mem, cur, lastUpdateOffset, tgNext, tgPending, hist>>
    /\ UNCHANGED <<pure, scheduler>>

\* the user presses a button of a bot message
ButtonPress ==
    /\ pc = "loop"
    /\ tgNext <= MaxUpdates
    /\ \E data \in PressableData(keyboards) :
          tgPending' = Append(tgPending, [update_id |-> tgNext, data |-> data])
    /\ tgNext' = tgNext + 1
    /\ UNCHANGED <<now, pc, disk, mem, cur, lastUpdateOffset, hist>>
    /\ UNCHANGED <<pure, scheduler>>

Next ==
    \/ Main
    \/ ProcessCallbacks
    \/ BeginBooking
    \/ FinishBooking
    \/ ExpireAndSave
    \/ ScrapeError
    \/ Dispatch
    \/ AutoBookingsDone
    \/ CleanAndSave
    \/ Crash
    \/ Tick
    \/ ButtonPress

Spec == Init /\ [][Next]_vars

(***************************************************************************)
(* The daemon on a disk that can refuse a write: saveNotifiedJobs throws   *)
(* at the first or at the final save, performScrapeFilterNotify throws,    *)
(* and main goes on with the next cycle.                                   *)
(***************************************************************************)
SaveError ==
    /\ \/ pc = "book1" /\ Pending(mem) = {}
       \/ pc = "final"
    /\ EndOfCycle
    /\ pc' = "loop"
    /\ UNCHANGED <<now, disk, lastUpdateOffset, tgNext, tgPending, seen,
                   attempted, keyboards>>
    /\ UNCHANGED <<pure, scheduler>>

NextSaveError ==
    \/ Next
    \/ SaveError

SpecSaveError == Init /\ [][NextSaveError]_vars

(***************************************************************************)
(* Dispatch alone: one run of step 4 at a clock reading of the first two   *)
(* days, on an empty store, over postings with any of the date strings.    *)
(***************************************************************************)
DispatchClocks == {0, NOTIFICATION_EXPIRY_MS, DAY_MS - 1, DAY_MS, DAY_MS + NOTIFICATION_EXPIRY_MS}

InitDispatch ==
    /\ now \in DispatchClocks
    /\ pc = "scrape"
    /\ disk = EmptyStore
    /\ mem = EmptyStore
    /\ cur = NoHash
    /\ lastUpdateOffset = 0
    /\ tgNext = 1 /\ tgPending = <<>>
    /\ seen = {}
    /\ polled = {}
    /\ toasts = NoToasts
    /\ edits = NoEdits
    /\ sent = NoSends
    /\ skipped = {}
    /\ threw = {}
    /\ attempted = {}
    /\ bookEvt = {}
    /\ keyboards = {}
    /\ NoCall
    /\ InCycle

DispatchAny == DispatchLists(AnyMatchedLists)

NextDispatch == DispatchAny

SpecDispatch == InitDispatch /\ [][NextDispatch]_vars

\* what a step of main outside the cycle leaves alone
store == <<pc, disk, mem, cur, lastUpdateOffset, tgNext, tgPending, hist>>

\* SIGTERM or SIGINT between two steps
Signal ==
    /\ lpc # "exited"
    /\ ~shutdownRequested
    /\ shutdownRequested' = TRUE
    /\ did' = {}
    /\ UNCHANGED <<now, lpc, browser, browserStartTime, consecutiveErrors, failStreak,
                   faults, store, pure>>

(***************************************************************************)
(* The Booking Executor alone: executePendingBookings of step 1, entered   *)
(* with a store of three entries, notified or expired, on which a batch of *)
(* book presses has just been processed.  A termination signal may arrive *)
(* at any await of the executor.                                           *)
(***************************************************************************)
ExecJobs ==
    { [date |-> [dayName |-> "", text |-> "D2"],
       school |-> "lone peak high school", position |-> "math"],
      [date |-> [dayName |-> "", text |-> "D3"],
       school |-> "lone peak high school", position |-> "math"],
      [date |-> [dayName |-> "Wed", text |-> "D3"],
       school |-> "lone peak high school", position |-> "math"] }

ExecHashes == { createJobHash(job) : job \in ExecJobs }

\* the posting with this fingerprint
ExecJobOf(h) == CHOOSE job \in ExecJobs : createJobHash(job) = h

\* the batches of book presses, at most one press for a notification
ExecBatches ==
    UNION { { [i \in 1..n |-> [update_id |-> i,
                               data |-> [action |-> "book", jobHash |-> b[i]]]]
              : b \in { c \in [1..n -> ExecHashes] :
                          \A i, j \in 1..n : c[i] = c[j] => i = j } }
            : n \in 0..Cardinality(ExecHashes) }

InitExecutor ==
    /\ now = 0
    /\ \E st \in [ExecHashes -> {"notified", "expired"}] :
          disk = [h \in ExecHashes |->
                     [ConfirmEntry(ExecJobOf(h), FALSE, 1, 0) EXCEPT !.status = st[h]]]
    /\ \E batch \in ExecBatches :
          LET acc == ProcessQueries(batch, [store |-> disk, toasts |-> NoToasts,
                                            edits |-> NoEdits, bookEvt |-> {}])
              ids == { batch[i].update_id : i \in 1..Len(batch) }
          IN /\ tgPending = batch
             /\ tgNext = Len(batch) + 1
             /\ lastUpdateOffset = Len(batch) + 1
             /\ polled = ids
             /\ seen = ids
             /\ mem = acc.store
             /\ toasts = acc.toasts
             /\ edits = acc.edits
             /\ bookEvt = acc.bookEvt
    /\ pc = "book1"
    /\ cur = NoHash
    /\ sent = NoSends
    /\ skipped = {}
    /\ threw = {}
    /\ attempted = {}
    /\ keyboards = ExecHashes
    /\ NoCall
    /\ InCycle

NextExecutor ==
    \/ BeginBooking
    \/ FinishBooking
    \/ ExpireAndSave
    \/ Signal

SpecExecutor == InitExecutor /\ [][NextExecutor]_vars

(***************************************************************************)
(* The classifier alone: one call of filterJob on a posting whose school,  *)
(* position and duration are drawn from texts that cover every value of    *)
(* the axes.  The daemon's variables rest.                                 *)
(***************************************************************************)
\* the daemon is not running: its store, channel and histories are empty
Resting ==
    /\ now = 0
    /\ pc = "none"
    /\ disk = EmptyStore
    /\ mem = EmptyStore
    /\ cur = NoHash
    /\ lastUpdateOffset = 0
    /\ tgNext = 1 /\ tgPending = <<>>
    /\ seen = {}
    /\ polled = {}
    /\ toasts = NoToasts
    /\ edits = NoEdits
    /\ sent = NoSends
    /\ skipped = {}
    /\ threw = {}
    /\ attempted = {}
    /\ bookEvt = {}
    /\ keyboards = {}

daemon == <<now, pc, disk, mem, cur, lastUpdateOffset, tgNext, tgPending, hist>>

FilterSchools ==
    {"Orem High School", "Provo High School", "Westlake High School",
     "Westlake HS - Lehi", "Orem Elementary", "Provo Elementary",
     "Saratoga Springs Elementary", "Vista Heights Academy Alpine"}

FilterPositions == {"History", "Art", "Spanish", "English Language Learner", "Teacher"}

FilterDurations == {"Full Day", "Half Day AM", "N/A"}

FilterJobs == [school : FilterSchools, position : FilterPositions, duration : FilterDurations]

InitFilter ==
    /\ Resting
    /\ InCycle
    /\ args \in { <<job>> : job \in FilterJobs }
    /\ returned = << >>

\* the call filterJob(job)
Classify ==
    /\ Len(args) = 1
    /\ returned = << >>
    /\ returned' = <<filterJob(args[1])>>
    /\ UNCHANGED <<args, daemon, scheduler>>

NextFilter == Classify

SpecFilter == InitFilter /\ [][NextFilter]_vars

(***************************************************************************)
(* The fingerprint alone: createJobHash called on two scraped postings     *)
(* that carry, besides date, school and position, a job number and a       *)
(* duration.  The digest is taken as injective: the fingerprint is the     *)
(* lower-cased text that is digested.                                      *)
(***************************************************************************)
HashDates == { [dayName |-> "Wed", text |-> "D3"], [dayName |-> "", text |-> "D3"] }

HashJobs ==
    [date : HashDates, school : {"Orem HS", "Orem HS-East"},
     position : {"Art", "ART", "East-Art"},
     jobNumber : {"#1", "#2"}, duration : {"Full Day", "Half Day AM"}]

InitHash ==
    /\ Resting
    /\ InCycle
    /\ args \in HashJobs \X HashJobs
    /\ returned = << >>

\* the calls createJobHash(a) and createJobHash(b)
HashBoth ==
    /\ Len(args) = 2
    /\ returned = << >>
    /\ returned' = <<createJobHash(args[1]), createJobHash(args[2])>>
    /\ UNCHANGED <<args, daemon, scheduler>>

NextHash == HashBoth

SpecHash == InitHash /\ [][NextHash]_vars

(***************************************************************************)
(* The load alone: loadNotifiedJobs called on a store file that cannot be  *)
(* read or parsed, or that holds legacy and object-form records.           *)
(***************************************************************************)
LoadHashes == {"h1", "h2", "h3"}

LegacyRecords == [legacy : {0, NOTIFICATION_EXPIRY_MS}]

ObjectRecords ==
    { ConfirmEntry(LeftoverJob, TRUE, 1, 0), AutoBookEntry(LeftoverJob, NULL, 0) }

\* what fs.readFile and JSON.parse give: an error, or the object of the file
LoadFiles ==
    { [ok |-> FALSE, raw |-> EmptyStore] } \cup
    { [ok |-> TRUE, raw |-> raw] :
        raw \in UNION { [d -> LegacyRecords \cup ObjectRecords] : d \in SUBSET LoadHashes } }

\* loadNotifiedJobs with its try and catch: what the call returns or throws
tryLoadNotifiedJobs(file) ==
    IF ~file.ok THEN [threw |-> FALSE, value |-> EmptyStore]
    ELSE [threw |-> FALSE, value |-> loadNotifiedJobs(file.raw)]

InitLoad ==
    /\ Resting
    /\ InCycle
    /\ args \in { <<file>> : file \in LoadFiles }
    /\ returned = << >>

\* the call loadNotifiedJobs()
LoadFile ==
    /\ Len(args) = 1
    /\ returned = << >>
    /\ returned' = <<tryLoadNotifiedJobs(args[1])>>
    /\ UNCHANGED <<args, daemon, scheduler>>

NextLoad == LoadFile

SpecLoad == InitLoad /\ [][NextLoad]_vars

(***************************************************************************)
(* The daemon on a store file that can be lost: between two cycles the     *)
(* file is deleted or damaged, so that from then on, until the daemon      *)
(* writes the file again, loadNotifiedJobs gives what it gives for a file  *)
(* that cannot be read or parsed.                                          *)
(***************************************************************************)
FileLost ==
    /\ pc = "loop"
    /\ disk # EmptyStore
    /\ disk' = tryLoadNotifiedJobs([ok |-> FALSE, raw |-> disk]).value
    /\ UNCHANGED <<now, pc, mem, cur, lastUpdateOffset, tgNext, tgPending, hist>>
    /\ UNCHANGED <<pure, scheduler>>

NextFileLost ==
    \/ Next
    \/ FileLost

SpecFileLost == Init /\ [][NextFileLost]_vars

(***************************************************************************)
(* The one-shot runner alone: one run of its main on a store file that the *)
(* daemon wrote, with legacy and object-form values.  The runner keeps     *)
(* bare notification times: it loads the file as it is, adds the time of   *)
(* the run for each new match whose send returned, purges and saves.       *)
(***************************************************************************)
RunOnceClocks == {NOTIFICATION_EXPIRY_MS, MAX_JOB_AGE_MS, MAX_JOB_AGE_MS + NOTIFICATION_EXPIRY_MS}

\* the fingerprints of the matches a run can notify
RunOnceMatches == {"h3", "h4"}

\* value > cutoffTime of JavaScript: a number is compared as it is, an object
\* converts to NaN, and every comparison with NaN is false
GreaterThan(value, cutoffTime) ==
    IF IsLegacy(value) THEN value.legacy > cutoffTime ELSE FALSE

\* cleanOldNotifications of the runner
cleanOldNotificationsRunOnce(notifiedJobs, t) ==
    LET cutoffTime == t - 7 * 24 * 60 * 60 * 1000
        kept == { h \in DOMAIN notifiedJobs : GreaterThan(notifiedJobs[h], cutoffTime) }
    IN [h \in kept |-> notifiedJobs[h]]

\* the store the runner saves: the loaded one, with the time of the run for
\* the matches that had no value and were notified, purged
runOnce(file, notified, t) ==
    LET loaded == IF file.ok THEN file.raw ELSE EmptyStore
        fresh == notified \ DOMAIN loaded
        marked == [h \in DOMAIN loaded \cup fresh |->
                      IF h \in fresh THEN [legacy |-> t] ELSE loaded[h]]
    IN cleanOldNotificationsRunOnce(marked, t)

InitRunOnce ==
    /\ Resting
    /\ InCycle
    /\ args \in { <<file, t>> : file \in LoadFiles, t \in RunOnceClocks }
    /\ returned = << >>

\* one run of the runner's main
RunOnce ==
    /\ Len(args) = 2
    /\ returned = << >>
    /\ \E notified \in SUBSET RunOnceMatches :
          returned' = <<runOnce(args[1], notified, args[2])>>
    /\ UNCHANGED <<args, daemon, scheduler>>

NextRunOnce == RunOnce

SpecRunOnce == InitRunOnce /\ [][NextRunOnce]_vars

(***************************************************************************)
(* The scheduler alone: the two loops of main, with a cycle as two steps,  *)
(* its beginning and a rest that returns or throws.  The clock is Mountain *)
(* Time in milliseconds                                                    *)
(* since midnight; the daemon is started in the evening, in operating      *)
(* hours or after them, and runs until MaxClock.  The outside causes at    *)
(* most MaxFaults failures (of a launch, a login or a cycle).              *)
(***************************************************************************)
SCRAPE_INTERVAL_MS == 30000
BROWSER_RESTART_INTERVAL_MS == 2 * 60 * 60 * 1000
OFF_HOURS_SLEEP_MS == 60000
BROWSER_RESTART_PAUSE_MS == 5000
MAX_CONSECUTIVE_ERRORS == 5
HOUR_MS == 3600000
checkInterval == 1000

\* the clock readings at which the daemon is started: 22:30 and 23:10
StartClocks == {22 * HOUR_MS + HOUR_MS \div 2, 23 * HOUR_MS + HOUR_MS \div 6}

isOperatingHours(t) ==
    LET hour == (t \div HOUR_MS) % 24 IN hour >= 5 /\ hour < 23

sleepWhole(ms, signalled) == ms

\* how long sleep(ms) lasts: to the first check when a signal has arrived
sleep(ms, signalled) == IF signalled THEN checkInterval ELSE ms

TooManyErrorsAfter(n) == n > MAX_CONSECUTIVE_ERRORS

TooManyErrors(n) == n >= MAX_CONSECUTIVE_ERRORS

RestartDue == now - browserStartTime > BROWSER_RESTART_INTERVAL_MS

InitLoop ==
    /\ now \in StartClocks
    /\ pc = "none"
    /\ disk = recoverStuckBookings(loadNotifiedJobs(LeftoverStore))
    /\ mem = EmptyStore
    /\ cur = NoHash
    /\ lastUpdateOffset = 0
    /\ tgNext = 1 /\ tgPending = <<>>
    /\ seen = {}
    /\ polled = {}
    /\ toasts = NoToasts
    /\ edits = NoEdits
    /\ sent = NoSends
    /\ skipped = {}
    /\ threw = {}
    /\ attempted = {}
    /\ bookEvt = {}
    /\ keyboards = {}
    /\ NoCall
    /\ lpc = "outer"
    /\ browser = FALSE
    /\ browserStartTime = 0
    /\ consecutiveErrors = 0
    /\ shutdownRequested = FALSE
    /\ did = {}
    /\ failStreak = 0
    /\ faults = 0

\* the outer loop ends: process.exit(0)
OuterExit ==
    /\ lpc = "outer"
    /\ shutdownRequested
    /\ lpc' = "exited"
    /\ did' = {"exit"}
    /\ UNCHANGED <<now, browser, browserStartTime, consecutiveErrors, shutdownRequested,
                   failStreak, faults, store, pure>>

\* the launch of a session that starts the callback cursor again
LaunchOkCursorReset ==
    /\ lpc = "outer"
    /\ ~shutdownRequested
    /\ consecutiveErrors' = 0
    /\ failStreak' = 0
    /\ browser' = TRUE
    /\ browserStartTime' = now
    /\ lpc' = "inner"
    /\ did' = {"launch", "login"}
    /\ lastUpdateOffset' = 0
    /\ UNCHANGED <<now, shutdownRequested, faults, pure>>
    /\ UNCHANGED <<pc, disk, mem, cur, tgNext, tgPending, hist>>

\* launchBrowser, login and navigateToAvailableJobs succeed
LaunchOk ==
    /\ lpc = "outer"
    /\ ~shutdownRequested
    /\ consecutiveErrors' = 0
    /\ failStreak' = 0
    /\ browser' = TRUE
    /\ browserStartTime' = now
    /\ lpc' = "inner"
    /\ did' = {"launch", "login"}
    /\ UNCHANGED <<now, shutdownRequested, faults, store, pure>>

\* one of them throws: the outer catch sends the alert, finally closes the browser
LaunchFails ==
    /\ lpc = "outer"
    /\ ~shutdownRequested
    /\ faults < MaxFaults
    /\ faults' = faults + 1
    /\ consecutiveErrors' = 0
    /\ browser' = FALSE
    /\ lpc' = "pause"
    /\ did' = {"launch", "message", "close"}
    /\ UNCHANGED <<now, browserStartTime, shutdownRequested, failStreak, store, pure>>

InnerExitBrowserOpen ==
    /\ lpc = "inner"
    /\ shutdownRequested
    /\ lpc' = "pause"
    /\ did' = {}
    /\ UNCHANGED <<now, browser, browserStartTime, consecutiveErrors, shutdownRequested,
                   failStreak, faults, store, pure>>

\* the inner loop ends on the shutdown flag
InnerExit ==
    /\ lpc = "inner"
    /\ shutdownRequested
    /\ browser' = FALSE
    /\ lpc' = "pause"
    /\ did' = {"close"}
    /\ UNCHANGED <<now, browserStartTime, consecutiveErrors, shutdownRequested,
                   failStreak, faults, store, pure>>

\* the session is older than the restart interval: break
RestartInterval ==
    /\ lpc = "inner"
    /\ ~shutdownRequested
    /\ RestartDue
    /\ browser' = FALSE
    /\ lpc' = "pause"
    /\ did' = {"close"}
    /\ UNCHANGED <<now, browserStartTime, consecutiveErrors, shutdownRequested,
                   failStreak, faults, store, pure>>

\* outside operating hours: heartbeat, sleep, continue
OffHours ==
    /\ lpc = "inner"
    /\ ~shutdownRequested
    /\ ~RestartDue
    /\ ~isOperatingHours(now)
    /\ \E signal \in BOOLEAN :
          /\ shutdownRequested' = signal
          /\ now' = now + sleep(OFF_HOURS_SLEEP_MS, signal)
    /\ now' <= MaxClock
    /\ did' = {"sleep"}
    /\ UNCHANGED <<lpc, browser, browserStartTime, consecutiveErrors, failStreak,
                   faults, store, pure>>

\* the cursors a poll at this cursor can give: the poll returns no update,
\* or updates of which the last has an id up to MaxUpdates
PolledOffsets(offset) ==
    {offset} \cup { id + 1 : id \in (IF offset = 0 THEN 1 ELSE offset)..MaxUpdates }

\* in operating hours: the cycle begins, refreshPage and step 1 of the cycle,
\* of which the poll moves the callback cursor
CycleStart ==
    /\ lpc = "inner"
    /\ ~shutdownRequested
    /\ ~RestartDue
    /\ isOperatingHours(now)
    /\ now + SCRAPE_INTERVAL_MS <= MaxClock
    /\ lpc' = "cycle"
    /\ did' = {"poll"}
    /\ lastUpdateOffset' \in PolledOffsets(lastUpdateOffset)
    /\ UNCHANGED <<now, browser, browserStartTime, consecutiveErrors, shutdownRequested,
                   failStreak, faults, pure>>
    /\ UNCHANGED <<pc, disk, mem, cur, tgNext, tgPending, hist>>

\* the rest of a cycle that returns, and the sleep after it
CycleOk ==
    /\ lpc = "cycle"
    /\ consecutiveErrors' = 0
    /\ failStreak' = 0
    /\ \E signal \in BOOLEAN :
          /\ shutdownRequested' = (shutdownRequested \/ signal)
          /\ now' = now + sleep(SCRAPE_INTERVAL_MS, shutdownRequested')
    /\ lpc' = "inner"
    /\ did' = {"scrape", "sleep"}
    /\ UNCHANGED <<browser, browserStartTime, faults, store, pure>>

\* the rest of a cycle that throws: count it; at the threshold alert and break, else sleep
CycleFails ==
    /\ lpc = "cycle"
    /\ faults < MaxFaults
    /\ faults' = faults + 1
    /\ consecutiveErrors' = consecutiveErrors + 1
    /\ failStreak' = failStreak + 1
    /\ IF TooManyErrors(consecutiveErrors')
       THEN /\ browser' = FALSE
            /\ lpc' = "pause"
            /\ did' = {"error", "message", "close"}
            /\ UNCHANGED <<now, shutdownRequested>>
       ELSE /\ \E signal \in BOOLEAN :
                  /\ shutdownRequested' = (shutdownRequested \/ signal)
                  /\ now' = now + sleep(SCRAPE_INTERVAL_MS, shutdownRequested')
            /\ lpc' = "inner"
            /\ did' = {"error", "sleep"}
            /\ UNCHANGED browser
    /\ UNCHANGED <<browserStartTime, store, pure>>

\* the pause before the next browser, skipped on shutdown
Pause ==
    /\ lpc = "pause"
    /\ IF shutdownRequested
       THEN UNCHANGED <<now, shutdownRequested>> /\ did' = {}
       ELSE /\ \E signal \in BOOLEAN :
                  /\ shutdownRequested' = signal
                  /\ now' = now + sleep(BROWSER_RESTART_PAUSE_MS, signal)
            /\ now' <= MaxClock
            /\ did' = {"sleep"}
    /\ lpc' = "outer"
    /\ UNCHANGED <<browser, browserStartTime, consecutiveErrors, failStreak, faults,
                   store, pure>>

NextLoop ==
    \/ OuterExit
    \/ LaunchOk
    \/ LaunchFails
    \/ InnerExit
    \/ RestartInterval
    \/ OffHours
    \/ CycleStart
    \/ CycleOk
    \/ CycleFails
    \/ Pause
    \/ Signal

SpecLoop == InitLoop /\ [][NextLoop]_vars

\* The steps main takes by itself: whenever one of them is possible, the
\* event loop runs it.  The failures and the signal are up to the outside.
MainSteps ==
    \/ OuterExit
    \/ LaunchOk
    \/ InnerExit
    \/ RestartInterval
    \/ OffHours
    \/ CycleStart
    \/ CycleOk
    \/ Pause

SpecLoopFair == SpecLoop /\ WF_vars(MainSteps)

(***************************************************************************)
(* The claims.                                                             *)
(***************************************************************************)
\* the steps of the daemon, by the positions they leave and reach
MainStep == pc = "boot" /\ pc' = "loop"
CallbackStep == pc = "loop" /\ pc' = "book1"
ExecutorStep == \/ pc \in {"book1", "book2"} /\ pc' \in {"call1", "call2"}
                \/ pc \in {"call1", "call2"} /\ pc' \in {"book1", "book2"}
SweepStep == pc = "book1" /\ pc' = "scrape"
DispatchStep == pc = "scrape" /\ pc' \in {"book2", "final"}
PurgeStep == pc = "final" /\ pc' = "loop"

\* the fingerprints of the entries for which a booking was attempted
AttemptedHashes == { a[1] : a \in attempted }

\* the fingerprints of the notifications in a list of sends
SentHashes(sends) == { createJobHash(sends[i].job) : i \in 1..Len(sends) }

\* C1: dispatch sends nothing for a matched job whose fingerprint has an
\* entry and leaves that entry as it is; within one dispatch no fingerprint
\* is notified twice, so no fingerprint gets a second entry.
C1_NoSecondEntry ==
    [][ DispatchStep =>
          /\ \A h \in DOMAIN mem :
                /\ h \in DOMAIN mem' /\ mem'[h] = mem[h]
                /\ h \notin SentHashes(sent')
          /\ \A h \in skipped' : h \in DOMAIN mem' /\ (h \in DOMAIN mem => mem'[h] = mem[h])
          /\ \A i, j \in 1..Len(sent') :
                i # j => createJobHash(sent'[i].job) # createJobHash(sent'[j].job)
          /\ DOMAIN mem' = DOMAIN mem \cup SentHashes(sent') ]_vars

\* a dispatch met a posting whose entry an earlier cycle saved, and sent nothing for it
C1_Witness ==
    /\ pc = "final"
    /\ \E h \in skipped : h \in DOMAIN disk /\ mem[h] = disk[h] /\ h \notin SentHashes(sent)

Edges == { <<"notified", "book_requested">>, <<"notified", "ignored">>,
           <<"notified", "expired">>, <<"book_requested", "booking">>,
           <<"booking", "booked">>, <<"booking", "failed">> }

\* every entry of the store before is there after, in the same status or one edge on
AlongEdges(before, after) ==
    \A h \in DOMAIN before :
        /\ h \in DOMAIN after
        /\ \/ after[h].status = before[h].status
           \/ <<before[h].status, after[h].status>> \in Edges

\* C2: in the steps of the daemon a status moves only along the six edges,
\* and an entry that dispatch creates starts in notified or book_requested.
C2_StatusEdges ==
    [][ /\ MainStep => AlongEdges(disk, disk')
        /\ CallbackStep => AlongEdges(disk, mem') /\ DOMAIN mem' = DOMAIN disk
        /\ (ExecutorStep \/ SweepStep) => AlongEdges(mem, mem') /\ DOMAIN mem' = DOMAIN mem
        /\ DispatchStep =>
              /\ AlongEdges(mem, mem')
              /\ \A h \in DOMAIN mem' \ DOMAIN mem :
                    mem'[h].status \in {"notified", "book_requested"} ]_vars

\* an entry went notified, book_requested, booking, booked in one cycle
C2_Witness ==
    /\ pc = "book1"
    /\ \E h \in bookEvt : h \in AttemptedHashes /\ mem[h].status = "booked"
                             /\ disk[h].status = "notified"

Terminal == {"booked", "failed", "ignored", "expired"}

\* every terminal entry of the store before is there after, in the same status
TerminalKept(before, after) ==
    \A h \in DOMAIN before :
        before[h].status \in Terminal =>
            h \in DOMAIN after /\ after[h].status = before[h].status

\* C3: a terminal entry keeps its status through every step of the daemon;
\* it leaves the store only in the retention purge, when it is too old.
C3_TerminalStays ==
    [][ /\ MainStep => TerminalKept(disk, disk')
        /\ CallbackStep => TerminalKept(disk, mem')
        /\ (ExecutorStep \/ SweepStep \/ DispatchStep) => TerminalKept(mem, mem')
        /\ SweepStep => TerminalKept(disk, disk')
        /\ PurgeStep =>
              \A h \in DOMAIN mem :
                  mem[h].status \in Terminal =>
                      IF h \in DOMAIN disk'
                      THEN disk'[h].status = mem[h].status
                      ELSE mem[h].timestamp <= now - MAX_JOB_AGE_DAYS * DAY_MS ]_vars

\* a terminal entry went through a whole cycle: nothing edited its message,
\* and dispatch met its posting again
C3_Witness ==
    /\ pc = "final"
    /\ \E h \in skipped :
          /\ mem[h].status \in Terminal
          /\ \A i \in 1..Len(edits) : edits[i][1] # h

\* the calendar days from the day of the clock reading to the day a date
\* string names; -1 when it names none
DaysUntil(date, t) ==
    CASE date.text = "D2" -> 2 - (t \div DAY_MS)
      [] date.text = "D3" -> 3 - (t \div DAY_MS)
      [] OTHER -> -1

\* C4: the entry of a new match is book_requested, autoBooked, without
\* expiry exactly when the match is certain and at least 3 days ahead;
\* otherwise it is notified and expires 5 minutes after its creation.
C4_AutoBookRule ==
    [][ DispatchStep =>
          \A i \in 1..Len(sent') :
              LET m == sent'[i]
                  entry == mem'[createJobHash(m.job)]
              IN /\ entry.jobData = m.job
                 /\ entry.timestamp = now
                 /\ entry.uncertain = m.filterResult.uncertain
                 /\ IF ~m.filterResult.uncertain /\ DaysUntil(m.job.date, now) >= 3
                    THEN /\ entry.status = "book_requested"
                         /\ entry.autoBooked
                         /\ entry.expiresAt = NULL
                    ELSE /\ entry.status = "notified"
                         /\ ~entry.autoBooked
                         /\ entry.expiresAt = now + 5 * 60 * 1000 ]_vars

\* one dispatch made an auto-booking of a certain match 3 days ahead and a
\* notification of a certain match 2 days ahead
C4_Witness ==
    /\ pc = "book2"
    /\ \E i, j \in 1..Len(sent) :
          /\ ~sent[i].filterResult.uncertain /\ DaysUntil(sent[i].job.date, now) = 3
          /\ mem[createJobHash(sent[i].job)].status = "book_requested"
          /\ ~sent[j].filterResult.uncertain /\ DaysUntil(sent[j].job.date, now) = 2
          /\ mem[createJobHash(sent[j].job)].status = "notified"

\* C5: the entry of a booking attempt in flight is uncertain only if this
\* cycle applied a book press to it; no entry is both uncertain and autoBooked.
C5_UncertainNeedsPress ==
    /\ pc \in {"call1", "call2"} => (mem[cur].uncertain => cur \in bookEvt)
    /\ \A h \in DOMAIN mem : ~(mem[h].uncertain /\ mem[h].autoBooked)
    /\ \A h \in DOMAIN disk : ~(disk[h].uncertain /\ disk[h].autoBooked)

\* the booking of an uncertain match is in flight, after its book press
C5_Witness ==
    /\ pc = "call1"
    /\ mem[cur].uncertain /\ cur \in bookEvt /\ mem[cur].status = "booking"

\* C6: while a booking attempt is in flight the persisted store records
\* its entry in booking.
C6_BookingMarkSaved ==
    pc \in {"call1", "call2"} => cur \in DOMAIN disk /\ disk[cur].status = "booking"

\* C7: the start of the process turns every persisted booking entry into
\* failed and saves the store; no cycle begins with a booking entry.
C7_RecoveryAtStart ==
    [][ /\ MainStep =>
              /\ DOMAIN disk' = DOMAIN disk
              /\ \A h \in DOMAIN disk :
                    disk'[h] = IF disk[h].status = "booking"
                               THEN [disk[h] EXCEPT !.status = "failed"]
                               ELSE disk[h]
        /\ pc' = "loop" => \A h \in DOMAIN disk' : disk'[h].status # "booking" ]_vars

\* the entry found in booking is failed when the cycles begin, without any attempt
C7_Witness ==
    /\ pc = "loop"
    /\ attempted = {}
    /\ \E h \in DOMAIN disk : disk[h].status = "failed" /\ LeftoverStore[h].status = "booking"

\* a notified entry with an expiry time that has passed
PastDue(entry, t) ==
    entry.status = "notified" /\ entry.expiresAt # NULL /\ entry.expiresAt < t

\* how many of the edits set this status line on the message of h
EditCount(ed, h, line) == Cardinality({ i \in 1..Len(ed) : ed[i] = <<h, line>> })

\* the update with this id
UpdateOf(updates, id) ==
    updates[CHOOSE i \in 1..Len(updates) : updates[i].update_id = id]

\* C8: the sweep moves each past-due notified entry to expired with one
\* edit of its message and touches no other entry; a book or ignore event
\* for an expired entry is answered 'Already expired' and changes nothing.
C8_ExpiredOnce ==
    [][ /\ SweepStep =>
              \A h \in DOMAIN mem :
                  IF PastDue(mem[h], now)
                  THEN /\ mem'[h] = [mem[h] EXCEPT !.status = "expired"]
                       /\ EditCount(edits', h, "expired") = EditCount(edits, h, "expired")
                              + (IF mem[h].telegramMessageId # NULL THEN 1 ELSE 0)
                  ELSE /\ mem'[h] = mem[h]
                       /\ EditCount(edits', h, "expired") = EditCount(edits, h, "expired")
        /\ CallbackStep =>
              \A id \in polled' :
                  LET data == UpdateOf(tgPending, id).data IN
                  (/\ data.action \in {"book", "ignore"}
                   /\ data.jobHash \in DOMAIN disk
                   /\ disk[data.jobHash].status = "expired")
                  => /\ mem'[data.jobHash] = disk[data.jobHash]
                     /\ \E i \in 1..Len(toasts') :
                           toasts'[i] = <<id, <<"Already", "expired">>>> ]_vars

\* a press on a button of an expired notification was answered
C8_Witness ==
    /\ pc = "book1"
    /\ \E i \in 1..Len(toasts) :
          /\ toasts[i][2] = <<"Already", "expired">>
          /\ \E h \in DOMAIN mem : mem[h].status = "expired" /\ disk[h] = mem[h]
                                      /\ UpdateOf(tgPending, toasts[i][1]).data.jobHash = h

\* the polled updates, oldest first
BatchOf(updates, ids) == SelectSeq(updates, LAMBDA u : u.update_id \in ids)

\* the book and ignore events of a batch that name h
DecisionsFor(batch, h) ==
    SelectSeq(batch, LAMBDA u : u.data.jobHash = h /\ u.data.action \in {"book", "ignore"})

\* C9: processing a batch of events changes nothing but the status of the
\* notified entries that a book or ignore event of the batch names (by the
\* first such event); events without or with an unknown fingerprint, and
\* events for entries in another status, change no entry.
C9_CallbackFrame ==
    [][ CallbackStep =>
          /\ DOMAIN mem' = DOMAIN disk
          /\ \A h \in DOMAIN disk :
                LET decisions == DecisionsFor(BatchOf(tgPending, polled'), h) IN
                IF disk[h].status = "notified" /\ decisions # <<>>
                THEN mem'[h] = [disk[h] EXCEPT !.status =
                                   IF decisions[1].data.action = "book"
                                   THEN "book_requested" ELSE "ignored"]
                ELSE mem'[h] = disk[h] ]_vars

\* an event without a fingerprint was answered and the store is as it was saved
C9_Witness ==
    /\ pc = "book1"
    /\ mem = disk /\ mem # EmptyStore
    /\ \E i \in 1..Len(toasts) :
          /\ toasts[i][2] = <<"Job not found or expired">>
          /\ UpdateOf(tgPending, toasts[i][1]).data.jobHash \notin DOMAIN disk

\* C10: no poll returns an update that an earlier poll has returned.
C10_NoRedelivery ==
    [][ CallbackStep => polled' \cap seen = {} ]_vars

\* the classifier has returned
Classified == Len(args) = 1 /\ Len(returned) = 1

\* the values of the five axes for a posting, from the pattern lists
Subject(job) ==
    IF IncludesAny(toLowerCase(job.position), REJECTED_SUBJECTS) THEN "REJECT"
    ELSE IF IncludesAny(toLowerCase(job.position), ACCEPTED_SUBJECTS) THEN "ACCEPT"
    ELSE "UNCERTAIN"

LevelRejectedPattern(job) == IncludesAny(toLowerCase(job.school), REJECTED_SCHOOL_LEVELS)

LevelOk(job) ==
    /\ ~LevelRejectedPattern(job)
    /\ IncludesAny(toLowerCase(job.school), ACCEPTED_SCHOOL_LEVELS)

Blacklisted(job) == IncludesAny(toLowerCase(job.school), BLACKLISTED_SCHOOLS)

Nearby(job) == IncludesAny(toLowerCase(job.school), NEARBY_SCHOOLS)

FullDayPattern(job) == IncludesAny(toLowerCase(job.duration), ACCEPTED_DURATIONS)

HalfDayPattern(job) == IncludesAny(toLowerCase(job.duration), REJECTED_DURATIONS)

FullDay(job) == FullDayPattern(job) /\ ~HalfDayPattern(job)

Axes(job) == <<Subject(job), LevelOk(job), Blacklisted(job), FullDay(job), Nearby(job)>>

AxisValues == {"ACCEPT", "REJECT", "UNCERTAIN"} \X BOOLEAN \X BOOLEAN \X BOOLEAN \X BOOLEAN

Reject == [match |-> FALSE, uncertain |-> FALSE]
CertainMatch == [match |-> TRUE, uncertain |-> FALSE]
UncertainMatch == [match |-> TRUE, uncertain |-> TRUE]

\* the five-step precedence, first matching rule decides
FiveSteps(subject, levelOk, blacklisted, fullDay, nearby) ==
    CASE subject = "REJECT" -> Reject
      [] subject # "REJECT" /\ ~levelOk /\ ~blacklisted -> Reject
      [] subject # "REJECT" /\ blacklisted -> IF fullDay THEN UncertainMatch ELSE Reject
      [] subject # "REJECT" /\ levelOk /\ ~blacklisted /\ fullDay ->
            IF subject = "UNCERTAIN" THEN UncertainMatch ELSE CertainMatch
      [] subject # "REJECT" /\ levelOk /\ ~blacklisted /\ ~fullDay ->
            IF nearby /\ subject = "ACCEPT" THEN UncertainMatch ELSE Reject

C12_RejectedSubjectNeverMatches ==
    (Classified /\ IncludesAny(toLowerCase(args[1].position), REJECTED_SUBJECTS))
        => returned[1].match = FALSE

\* a full-day posting at an accepted, nearby school whose position has both a
\* reject pattern and an accept pattern was rejected
C12_Witness ==
    /\ Classified
    /\ IncludesAny(toLowerCase(args[1].position), REJECTED_SUBJECTS)
    /\ IncludesAny(toLowerCase(args[1].position), ACCEPTED_SUBJECTS)
    /\ LevelOk(args[1]) /\ ~Blacklisted(args[1]) /\ FullDay(args[1]) /\ Nearby(args[1])
    /\ returned[1].match = FALSE

C14_HalfDayNearby ==
    (Classified /\ HalfDayPattern(args[1]) /\ Subject(args[1]) = "ACCEPT"
                /\ LevelOk(args[1]) /\ ~Blacklisted(args[1]))
        => returned[1] = IF Nearby(args[1]) THEN UncertainMatch ELSE Reject

\* such a posting at a nearby school became an uncertain match
C14_Witness ==
    /\ Classified
    /\ HalfDayPattern(args[1]) /\ Subject(args[1]) = "ACCEPT"
    /\ LevelOk(args[1]) /\ ~Blacklisted(args[1]) /\ Nearby(args[1])
    /\ returned[1] = UncertainMatch

\* C15: a posting whose school name contains a rejected school-level pattern is
\* rejected, for every subject, duration, blacklist and nearby status.
C15_RejectedLevelNeverMatches ==
    (Classified /\ LevelRejectedPattern(args[1])) => returned[1].match = FALSE

\* C16: a posting whose duration contains neither a full-day pattern nor a
\* half-day pattern is never a match.
C16_UnknownDurationNeverMatches ==
    (Classified /\ ~FullDayPattern(args[1]) /\ ~HalfDayPattern(args[1]))
        => returned[1].match = FALSE

\* both fingerprints have been computed
Hashed == Len(args) = 2 /\ Len(returned) = 2

\* the tuple a fingerprint is meant to stand for
Tuple(job) == <<job.date, job.school, job.position>>

LowerTuple(job) ==
    <<toLowerCase(DateText(job.date)), toLowerCase(job.school), toLowerCase(job.position)>>

\* C17: createJobHash depends only on (date, school, position): two postings
\* with the same date, school and position get the same fingerprint, whatever
\* their job number and duration are, and so do two calls on the same posting.
C17_HashOfTupleOnly ==
    (Hashed /\ Tuple(args[1]) = Tuple(args[2])) => returned[1] = returned[2]

\* two postings with the same tuple and different job numbers and durations
\* were fingerprinted
C17_Witness ==
    /\ Hashed
    /\ Tuple(args[1]) = Tuple(args[2])
    /\ args[1].jobNumber # args[2].jobNumber
    /\ args[1].duration # args[2].duration
    /\ returned[1] = returned[2]

\* C18: with a collision-free digest, two postings whose (date, school,
\* position) tuples differ after lower-casing get different fingerprints.
C18_DifferentTuplesDiffer ==
    (Hashed /\ LowerTuple(args[1]) # LowerTuple(args[2])) => returned[1] # returned[2]

\* what the daemon must not do outside operating hours
Traffic == {"scrape", "poll", "book", "message"}

\* C19: while the Mountain-Time hour is outside [5, 23) the daemon performs no
\* scrape, no callback poll, no booking attempt, sends no message, and does not
\* exit (unless it was told to shut down); it only sleeps and checks again.
C19_QuietOffHours ==
    [][(~isOperatingHours(now) /\ lpc # "exited") =>
          /\ did' \cap Traffic = {}
          /\ (lpc' = "exited" => shutdownRequested)]_vars

\* a step of a cycle that threw, and one of a cycle that returned
FailingCycle == "error" \in did'
SuccessfulCycle == "scrape" \in did' /\ "error" \notin did'

\* C20: a failing cycle does not end the process and adds one to the counter
\* of consecutive errors; a successful cycle sets the counter to 0; and, the
\* restart interval and shutdown apart, the session is restarted (browser
\* closed, a new launch and login next) exactly by the cycle with which the
\* failing cycles in a row reach MAX_CONSECUTIVE_ERRORS.
C20_RestartAtThreshold ==
    [][/\ FailingCycle => (lpc' # "exited" /\ consecutiveErrors' = consecutiveErrors + 1)
       /\ SuccessfulCycle => consecutiveErrors' = 0
       /\ (lpc = "cycle" \/ (lpc = "inner" /\ ~shutdownRequested /\ ~RestartDue)) =>
             ((lpc' = "pause" /\ ~browser')
                 <=> (FailingCycle /\ failStreak' = MAX_CONSECUTIVE_ERRORS))]_vars

\* the fifth failing cycle in a row has closed the browser of a session that
\* was younger than the restart interval
C20_Witness ==
    /\ lpc = "pause"
    /\ ~browser
    /\ "error" \in did
    /\ failStreak = MAX_CONSECUTIVE_ERRORS
    /\ consecutiveErrors = MAX_CONSECUTIVE_ERRORS
    /\ ~RestartDue
    /\ ~shutdownRequested

\* the work a daemon that is shutting down must not begin
NewWork == {"poll", "scrape", "launch", "login"}

CycleOrder ==
    { <<"loop", "book1">>, <<"book1", "call1">>, <<"call1", "book1">>,
      <<"book1", "scrape">>, <<"scrape", "book2">>, <<"scrape", "final">>,
      <<"book2", "call2">>, <<"call2", "book2">>, <<"book2", "final">>,
      <<"final", "loop">> }

\* the moves that are no step of a cycle: the start of the process, its death,
\* and a cycle abandoned by a scrape that threw
OutsideOrder ==
    { <<"boot", "loop">>, <<"scrape", "loop">> }
        \cup { <<p, "boot">> : p \in {"loop", "book1", "call1", "call2"} }

SaveStep == disk' # disk

\* C24: a book event processed for a notified entry moves it to
\* book_requested and its booking is attempted in the same cycle, so that the
\* next save of the store records it as booked or failed; an ignore event
\* processed for a notified entry moves it to ignored.
C24_BookInSameCycle ==
    [][/\ CallbackStep =>
             \A h \in DOMAIN disk :
                 LET decisions == DecisionsFor(BatchOf(tgPending, polled'), h) IN
                 (disk[h].status = "notified" /\ decisions # <<>>) =>
                     IF decisions[1].data.action = "book"
                     THEN mem'[h].status = "book_requested" /\ h \in bookEvt'
                     ELSE mem'[h].status = "ignored" /\ h \notin bookEvt'
       /\ SaveStep =>
             \A h \in bookEvt :
                 /\ h \in AttemptedHashes
                 /\ h \in DOMAIN disk' => disk'[h].status \in {"booked", "failed"}]_vars

\* the booking asked for by a book press has failed and the store was saved
\* in the cycle of the press
C24_Witness ==
    /\ pc = "scrape"
    /\ \E h \in bookEvt :
          /\ h \in AttemptedHashes
          /\ h \in DOMAIN disk /\ disk[h].status = "failed" /\ ~disk[h].autoBooked
          /\ \E i \in 1..Len(toasts) : toasts[i][2] = <<"Booking...">>

\* a step with which a call of the Booking Actuator begins, or ends
BeginStep == pc \in {"book1", "book2"} /\ pc' \in {"call1", "call2"}
FinishStep == pc \in {"call1", "call2"} /\ pc' \notin {"call1", "call2"}

\* the status line of the last message edit
LastLine(ed) == ed[Len(ed)][2]

\* C25: the executor gives each book_requested entry its final status from
\* the outcome of the Actuator: booked for booked, failed for taken, for an
\* error and for an exception; when it returns no entry is in booking or
\* book_requested, and every entry that was book_requested has had its call,
\* whatever the calls before it returned or threw.
C25_OutcomeDecides ==
    [][/\ FinishStep =>
             /\ Len(edits') = Len(edits) + 1
             /\ edits'[Len(edits')][1] = cur
             /\ mem'[cur].status =
                    IF LastLine(edits') = "booked" THEN "booked" ELSE "failed"
             /\ \A h \in DOMAIN mem \ {cur} : mem'[h] = mem[h]
             /\ pc' \in {"book1", "book2"}
       /\ SweepStep =>
             /\ \A h \in DOMAIN mem : mem[h].status \notin {"booking", "book_requested"}
             /\ \A h \in bookEvt :
                   h \in AttemptedHashes /\ mem[h].status \in {"booked", "failed"}]_vars

\* the executor is about to return: of three entries asked for, the first
\* call failed with an error or an exception, the second found the job
\* taken, the third booked
C25_Witness ==
    /\ pc = "book1"
    /\ Pending(mem) = {}
    /\ Cardinality(bookEvt) = 3
    /\ Len(edits) = 3
    /\ edits[1][2] = "error" /\ edits[2][2] = "taken" /\ edits[3][2] = "booked"
    /\ mem[edits[1][1]].status = "failed"
    /\ mem[edits[2][1]].status = "failed"
    /\ mem[edits[3][1]].status = "booked"

\* C26: an entry gets at most one call of the Booking Actuator: no call begins
\* for an entry for which one was begun before, in the same or a later cycle.
C26_OneCallPerEntry ==
    [][BeginStep => <<cur', mem[cur'].timestamp>> \notin attempted]_vars

\* C27: an entry made on the auto-book path starts in book_requested and is
\* handed to the executor in the cycle that made it: the final save of that
\* cycle records it as booked or failed, and no save ever records an
\* auto-booked entry as book_requested.
C27_AutoBookSameCycle ==
    [][/\ DispatchStep =>
             \A h \in DOMAIN mem' \ DOMAIN mem :
                 mem'[h].autoBooked =>
                     (mem'[h].status = "book_requested" /\ pc' = "book2")
       /\ PurgeStep =>
             \A h \in DOMAIN mem \ DOMAIN disk :
                 mem[h].autoBooked =>
                     /\ mem[h].status \in {"booked", "failed"}
                     /\ <<h, mem[h].timestamp>> \in attempted
       /\ SaveStep =>
             \A h \in DOMAIN disk' :
                 ~(disk'[h].autoBooked /\ disk'[h].status = "book_requested")]_vars

\* the final save is about to record the auto-booking of this cycle as booked
C27_Witness ==
    /\ pc = "final"
    /\ \E h \in DOMAIN mem \ DOMAIN disk :
          /\ mem[h].autoBooked
          /\ mem[h].status = "booked"
          /\ mem[h].timestamp = now

\* the fingerprints of the notifications sent so far in this cycle
SentNow(list) == { createJobHash(list[i].job) : i \in 1..Len(list) }

\* C28: the purge at the end of a successful cycle removes every entry whose
\* timestamp is seven days or more in the past, whatever its status, and keeps
\* every younger entry as it is; a posting whose entry was purged is new again:
\* the dispatch skips a posting as a duplicate only if the store has an entry
\* for it or it was notified earlier in the same dispatch, and an entry it
\* makes carries the time of the dispatch.
C28_RetentionPurge ==
    [][/\ PurgeStep =>
             \A h \in DOMAIN mem :
                 IF now - mem[h].timestamp >= MAX_JOB_AGE_DAYS * 24 * HOUR_MS
                 THEN h \notin DOMAIN disk'
                 ELSE h \in DOMAIN disk' /\ disk'[h] = mem[h]
       /\ PurgeStep => DOMAIN disk' \subseteq DOMAIN mem
       /\ DispatchStep =>
             /\ skipped' \subseteq DOMAIN mem \cup SentNow(sent')
             /\ \A h \in DOMAIN mem' \ DOMAIN mem :
                   /\ mem'[h].timestamp = now
                   /\ mem'[h].status \in {"notified", "book_requested"}
                   /\ h \in SentNow(sent')]_vars

\* the posting of the entry found at the start has a new entry, made after the
\* purge removed the old one and kept the entry made at the start
C28_Witness ==
    /\ pc = "final"
    /\ createJobHash(LeftoverJob) \in DOMAIN mem
    /\ mem[createJobHash(LeftoverJob)].timestamp = Instant(1)
    /\ createJobHash(LeftoverJob) \notin DOMAIN disk
    /\ \E h \in DOMAIN disk : disk[h].timestamp = Instant(0)

\* C29: the load turns every legacy record, a bare time t, into the entry
\* {status: expired, timestamp: t, expiresAt: t, telegramMessageId: null,
\* jobData: null, uncertain: false} (it has no autoBooked field, which reads as
\* false), returns every object-form record as it is, adds and drops no
\* fingerprint, and never throws, whatever the file.
C29_LegacyMigration ==
    returned # << >> =>
        LET file == args[1]
            loaded == returned[1]
        IN /\ ~loaded.threw
           /\ file.ok =>
                 /\ DOMAIN loaded.value = DOMAIN file.raw
                 /\ \A h \in DOMAIN file.raw :
                       IF DOMAIN file.raw[h] = {"legacy"}
                       THEN loaded.value[h] =
                               [status |-> "expired",
                                timestamp |-> file.raw[h].legacy,
                                expiresAt |-> file.raw[h].legacy,
                                telegramMessageId |-> NULL, jobData |-> NoJob,
                                uncertain |-> FALSE, autoBooked |-> FALSE]
                       ELSE loaded.value[h] = file.raw[h]

\* a file with a legacy record and an object-form record was loaded
C29_Witness ==
    /\ returned # << >>
    /\ args[1].ok
    /\ \E h \in DOMAIN args[1].raw : DOMAIN args[1].raw[h] = {"legacy"}
    /\ \E h \in DOMAIN args[1].raw : args[1].raw[h] \in ObjectRecords
    /\ \E h \in DOMAIN returned[1].value : returned[1].value[h].status = "expired"

\* the entries of a store that are in booking
InBooking(notifiedJobs) ==
    { h \in DOMAIN notifiedJobs : notifiedJobs[h].status = "booking" }

\* C30: bookings are never attempted in parallel: at any moment at most one
\* entry is in booking, it is the entry of the one Booking Actuator call in
\* progress, and outside a call no entry is in booking; the signal handler,
\* the only callback that runs between the steps of the executor, changes
\* nothing but the shutdown flag.
C30_NoParallelBooking ==
    /\ [](/\ Cardinality(InBooking(mem)) <= 1
          /\ InBooking(mem) = (IF pc \in {"call1", "call2"} THEN {cur} ELSE {})
          /\ InBooking(disk) = {})
    /\ [][(~shutdownRequested /\ shutdownRequested') =>
             UNCHANGED <<now, store, pure, lpc, browser, browserStartTime,
                         consecutiveErrors, failStreak, faults>>]_vars

\* a call is in progress for one entry while another is still pending, and
\* the signal has arrived
C30_Witness ==
    /\ pc = "call1"
    /\ shutdownRequested
    /\ Cardinality(InBooking(mem)) = 1
    /\ Pending(mem) # {}

\* the fingerprints for which a send of this dispatch threw
ThrewHashes(failed) == { f[1] : f \in failed }

\* C31: a failing call of the channel or a failing booking never aborts the
\* cycle.  A send that throws leaves no entry for its posting (unless a later
\* send for the same fingerprint returned), the dispatch goes on to the
\* immediate bookings or the final save, a poll that fails and a booking that
\* throws are followed by the next step, and a cycle returns to the loop only
\* through the final save, or through a failure of the scrape itself.
C31_ChannelFailureContained ==
    [][/\ DispatchStep =>
             /\ \A h \in ThrewHashes(threw') \ SentNow(sent') :
                   h \notin DOMAIN mem' /\ h \notin DOMAIN mem
             /\ DOMAIN mem' \ DOMAIN mem = SentNow(sent')
       /\ (pc = "loop" /\ pc' # "loop") => pc' \in {"book1", "boot"}
       /\ (pc \in {"call1", "call2"} /\ pc' # pc) => pc' \in {"book1", "book2", "boot"}
       /\ (pc \in {"book2", "call2", "final"} /\ pc' = "loop") =>
             /\ pc = "final"
             /\ disk' = [h \in DOMAIN disk' |-> mem[h]]
             /\ ThrewHashes(threw) \cap DOMAIN disk' \subseteq SentNow(sent)]_vars

\* the final save of a cycle in which the first send threw and a later send
\* returned: the later posting has its entry, the first has none
C31_Witness ==
    /\ pc = "final"
    /\ \E f \in threw :
          /\ f[2] = 0
          /\ f[1] \notin DOMAIN mem
          /\ Len(sent) > 0
          /\ SentNow(sent) \subseteq DOMAIN mem

\* a step of a session restart: the break out of the inner loop, the pause, or
\* a launch
RestartStep ==
    \/ lpc \in {"inner", "cycle"} /\ lpc' = "pause"
    \/ lpc = "pause" /\ lpc' = "outer"
    \/ lpc = "outer" /\ lpc' \in {"inner", "pause"}

C33_OneCallAcrossCrash ==
    [][BeginStep =>
          \A a \in attempted :
              a[1] = cur' => now - a[2] >= MAX_JOB_AGE_MS]_vars

\* C34: whenever the daemon writes the store file, no entry of what it writes
\* is in book_requested or booking: every booking requested in the cycle, by
\* a press or by an auto-booking, was driven to booked or failed in memory
\* before the write.
C34_NoPendingOnDisk ==
    [][SaveStep =>
          /\ \A h \in DOMAIN disk' :
                disk'[h].status \notin {"book_requested", "booking"}
          /\ \A h \in bookEvt \cap DOMAIN disk' :
                disk'[h].status \in {"booked", "failed"}]_vars

\* the first save of a cycle has written the failed booking that a press of
\* this cycle requested
C34_Witness ==
    /\ pc = "scrape"
    /\ disk = mem
    /\ \E h \in bookEvt :
          /\ disk[h].status = "failed"
          /\ <<h, disk[h].timestamp>> \in attempted

\* C35: a book press that a cycle drained is not lost when that cycle ends
\* before its first save: the cursor with which the daemon polls next is not
\* past any update of that poll, so the press is delivered again.
C35_CursorBehindUnsaved ==
    [][(pc \in {"book1", "call1"} /\ pc' \in {"loop", "boot"} /\ bookEvt # {}) =>
          \A id \in polled : lastUpdateOffset' <= id]_vars

\* C36: a book press is honoured only within the confirmation window: the
\* Callback Processor moves no entry to book_requested after the expiresAt of
\* the entry has passed, swept or not.
C36_BookOnlyInWindow ==
    [][(pc = "loop" /\ pc' = "book1") =>
          \A h \in bookEvt' :
              IF disk[h].expiresAt = NULL THEN TRUE ELSE now <= disk[h].expiresAt]_vars

\* C37: every call of the Booking Actuator is for a fingerprint for which a
\* notification send returned before: the buttons of an earlier cycle or the
\* send of this dispatch.  A posting whose send threw (and for which no later
\* send returned) has no entry after the dispatch, gets no call in that
\* cycle, and is not in the store the cycle saves, so that the next dispatch
\* that meets it finds no entry for it.
C37_SendBeforeBooking ==
    [][/\ BeginStep =>
             /\ cur' \in keyboards \cup SentNow(sent)
             /\ cur' \notin ThrewHashes(threw) \ SentNow(sent)
       /\ DispatchStep =>
             \A h \in DOMAIN mem' \ DOMAIN mem :
                 \E i \in 1..Len(sent') :
                     /\ createJobHash(sent'[i].job) = h
                     /\ mem'[h].jobData = sent'[i].job
       /\ PurgeStep =>
             \A h \in ThrewHashes(threw) \ SentNow(sent) :
                 h \notin DOMAIN mem /\ h \notin DOMAIN disk']_vars

\* the immediate booking of a posting whose send returned is in progress in
\* a cycle in which the send for another posting threw and left no entry
C37_Witness ==
    /\ pc = "call2"
    /\ cur \in SentNow(sent)
    /\ \E f \in threw : f[1] \notin DOMAIN mem /\ f[1] # cur

\* C38: a store file that is missing or is not valid JSON loads as the empty
\* store, without an error, and the cycle goes on with it: the callbacks find
\* no entry, and the dispatch skips no scraped match as a duplicate of an
\* earlier cycle, so that every match whose send returns gets a new entry,
\* made at the time of the dispatch, whatever entry it had before.
C38_LostFileLosesDedup ==
    [][/\ (pc = "loop" /\ pc' = "loop" /\ disk' # disk) =>
             (disk' = EmptyStore /\ lastUpdateOffset' = lastUpdateOffset)
       /\ (pc = "loop" /\ pc' = "book1" /\ disk = EmptyStore) =>
             (mem' = EmptyStore /\ bookEvt' = {})
       /\ (DispatchStep /\ mem = EmptyStore) =>
             /\ skipped' \subseteq SentNow(sent')
             /\ DOMAIN mem' = SentNow(sent')
             /\ \A h \in DOMAIN mem' : mem'[h].timestamp = now]_vars

\* the posting that had an entry in the file found at the start is being
\* auto-booked again at the start time, before the retention purge can have
\* removed its entry
C38_Witness ==
    /\ now = Instant(0)
    /\ pc = "call2"
    /\ cur = createJobHash(LeftoverJob)
    /\ mem[cur].timestamp = now
    /\ mem[cur].autoBooked

\* the time an entry of the store file was made
MadeAt(value) == IF DOMAIN value = {"legacy"} THEN value.legacy ELSE value.timestamp

\* C39: a run of the one-shot runner on a store the daemon wrote keeps every
\* entry made less than seven days before the run as it is, the object-form
\* entries too, and removes only entries that are older.
C39_RunOnceKeepsEntries ==
    (Len(args) = 2 /\ returned # << >>) =>
        LET file == args[1].raw
            saved == returned[1]
        IN \A h \in DOMAIN file :
              IF args[2] - MadeAt(file[h]) < MAX_JOB_AGE_MS
              THEN h \in DOMAIN saved /\ saved[h] = file[h]
              ELSE h \notin DOMAIN saved

====
